---- MODULE Spec2Model ----
(***************************************************************************)
(* Model of the Pingdom uptime report tool (src/src/main.rs).              *)
(*                                                                         *)
(* Two parts of the program are modelled:                                  *)
(*   - PingdomApi::calculate_uptime, the per-check fetch / decode / fold / *)
(*     finalize routine (specification SpecReduce runs it on one response);*)
(*   - main's pipeline: stream::iter(checks).map(..).buffer_unordered(10)  *)
(*     .collect(), then filter_map(Result::ok), sort_by and the printing   *)
(*     loop (specification Spec).                                          *)
(*                                                                         *)
(* Text is a sequence of code points.  A percentage is kept as the integer *)
(* number of ten-thousandths the code computes before its final division   *)
(* by 10000.0 (field e4), or as NaN.                                       *)
(***************************************************************************)
EXTENDS Integers, Sequences, FiniteSets, TLC

VARIABLES
    \* ---- calculate_uptime run on one response (SpecReduce)
    r_resp,       \* the response of the summary endpoint
    r_pc,         \* "start" | "parsed" | "folded" | "ok" | "err" | "panic"
    uptime_calc,  \* the HashMap being filled (lines 85-113)
    percentage,   \* the local of line 112
    \* ---- main (Spec)
    env,          \* the command line and environment main starts with
    list_requests,\* how many times GET /checks was sent
    list_resp,    \* the answer GET /checks got, once pc has left "list"
    requests,     \* per check: how many times its summary was requested
    checks,       \* all_checks["checks"]: sequence of [id, name]
    resp,         \* the response the service gives for each check
    next,         \* index of the next check the stream will hand out
    phase,        \* per check: "queued" | "fetching" | "sleeping" | "done"
    result,       \* per check: the Result of calculate_uptime
    collected,    \* the Vec built by collect(), in completion order
    ranked,       \* uptime_calculations after filter_map and sort_by
    output,       \* the printed report lines
    pc            \* "start" | "env" | "list" | "collect" | "print", or an end:
                  \* "usage" | "done" (Ok), "failed" (Err), and the panics
                  \* "panic_env" | "panic_list" | "panicked"

rvars == <<r_resp, r_pc, uptime_calc, percentage>>
mvars == <<env, list_requests, list_resp, requests,
           checks, resp, next, phase, result, collected, ranked, output, pc>>
vars == <<r_resp, r_pc, uptime_calc, percentage,
          env, list_requests, list_resp, requests,
          checks, resp, next, phase, result, collected, ranked, output, pc>>

----------------------------------------------------------------------------
(* Bounds of the model *)

\* longest summary.weeks array drawn as input
MaxWeeks == 2
\* longest check list with freely chosen checks and responses
MaxChecks == 2
\* how many checks more than the concurrency limit the long check list holds
Extra == 1

----------------------------------------------------------------------------
(* Text: serde_json's Display of a Value *)

Quote == 34
Backslash == 92
Zero == 48

\* serde_json writes '"' as \" and '\' as \\ inside a string
EscapeChar(c) ==
    IF c = Quote THEN <<Backslash, Quote>>
    ELSE IF c = Backslash THEN <<Backslash, Backslash>>
    ELSE <<c>>

RECURSIVE Escape(_)
Escape(s) == IF s = <<>> THEN <<>> ELSE EscapeChar(Head(s)) \o Escape(Tail(s))

\* Value::String(s).to_string(): the JSON text of the string, quotes included
JsonString(s) == <<Quote>> \o Escape(s) \o <<Quote>>

RECURSIVE Digits(_)
Digits(n) == IF n < 10 THEN <<Zero + n>> ELSE Digits(n \div 10) \o <<Zero + (n % 10)>>

\* Value::Number(n).to_string() for a non-negative integer
JsonNumber(n) == Digits(n)

\* str::cmp: lexicographic comparison by code unit; TRUE iff a < b
RECURSIVE StrLess(_, _)
StrLess(a, b) ==
    IF b = <<>> THEN FALSE
    ELSE IF a = <<>> THEN TRUE
    ELSE IF Head(a) # Head(b) THEN Head(a) < Head(b)
    ELSE StrLess(Tail(a), Tail(b))

StrLeq(a, b) == ~StrLess(b, a)

----------------------------------------------------------------------------
(* calculate_uptime *)

SecsPerMin == 60

NaN == [nan |-> TRUE, e4 |-> 0]
F64(e4) == [nan |-> FALSE, e4 |-> e4]

\* lines 85-93
NewCalc(check_id, check_name) ==
    [id |-> check_id, name |-> check_name,
     uptime |-> 0, downtime |-> 0, unmonitored |-> 0, max_uptime |-> 0,
     percentage |-> F64(0), downtime_mins |-> 0]

\* Value::as_u64: Some only for a non-negative integer
IsU64(v) == v >= 0

\* the three unwraps of lines 98-101 on one element of summary.weeks
RecordOk(u) == IsU64(u.uptime) /\ IsU64(u.downtime) /\ IsU64(u.unmonitored)

\* one pass of the loop body, lines 98-106
FoldRecordTruncOnce(calc, u) ==
    [calc EXCEPT !.uptime = @ + u.uptime,
                 !.downtime = @ + u.downtime,
                 !.downtime_mins = (calc.downtime + u.downtime) \div SecsPerMin,
                 !.unmonitored = @ + u.unmonitored]

FoldRecordRoundUp(calc, u) ==
    [calc EXCEPT !.uptime = @ + u.uptime,
                 !.downtime = @ + u.downtime,
                 !.downtime_mins = @ + ((u.downtime + SecsPerMin - 1) \div SecsPerMin),
                 !.unmonitored = @ + u.unmonitored]

FoldRecordSwapped(calc, u) ==
    [calc EXCEPT !.uptime = @ + u.uptime,
                 !.downtime = @ + u.unmonitored,
                 !.downtime_mins = @ + (u.downtime \div SecsPerMin),
                 !.unmonitored = @ + u.downtime]

FoldRecord(calc, u) ==
    [calc EXCEPT !.uptime = @ + u.uptime,
                 !.downtime = @ + u.downtime,
                 !.downtime_mins = @ + (u.downtime \div SecsPerMin),
                 !.unmonitored = @ + u.unmonitored]

\* the loop of lines 97-107; panics at the first element an unwrap rejects
RECURSIVE FoldWeeks(_, _)
FoldWeeks(calc, weeks) ==
    IF weeks = <<>> THEN [panic |-> FALSE, calc |-> calc]
    ELSE IF ~RecordOk(Head(weeks)) THEN [panic |-> TRUE, calc |-> calc]
    ELSE FoldWeeks(FoldRecord(calc, Head(weeks)), Tail(weeks))

\* line 109
MaxUptime(calc) == calc.uptime + calc.downtime + calc.unmonitored

\* (num / den * 100.0 * 10000.0).round() for 0 <= num, 0 < den: the quotient
\* to six decimal digits by long division, then rounded half away from zero
RECURSIVE LongDiv(_, _, _, _)
LongDiv(q, r, den, k) ==
    IF k = 0 THEN [q |-> q, r |-> r]
    ELSE LongDiv(q * 10 + ((r * 10) \div den), (r * 10) % den, den, k - 1)

RoundE4Floor(num, den) ==
    LongDiv(num \div den, num % den, den, 6).q

RoundE4(num, den) ==
    LET d == LongDiv(num \div den, num % den, den, 6)
    IN  IF 2 * d.r >= den THEN d.q + 1 ELSE d.q

\* line 112: 0.0 / 0.0 is NaN, and NaN survives the multiplications and round()
PercentageTruncated(calc, max_uptime) ==
    IF max_uptime = 0 THEN NaN
    ELSE F64(RoundE4Floor(calc.uptime + calc.unmonitored, max_uptime))

Percentage(calc, max_uptime) ==
    IF max_uptime = 0 THEN NaN
    ELSE F64(RoundE4(calc.uptime + calc.unmonitored, max_uptime))

Ok(calc) == [tag |-> "ok", stat |-> calc]
Err == [tag |-> "err"]
Panic == [tag |-> "panic"]

\* lines 109-115; Number::from_f64 is None for NaN and line 113 unwraps it
Finalize(calc) ==
    LET max_uptime == MaxUptime(calc)
        c1 == [calc EXCEPT !.max_uptime = max_uptime]
        p == Percentage(c1, max_uptime)
    IN  IF p.nan THEN Panic ELSE Ok([c1 EXCEPT !.percentage = p])

\* line 95: the two `?` (transport error, body that is not JSON)
FetchFails(rsp) == ~rsp.net \/ ~rsp.json

\* lines 78-116 as a function of the response
calculate_uptime(check_id, check_name, rsp) ==
    IF FetchFails(rsp) THEN Err
    ELSE IF ~rsp.hasWeeks THEN Panic
    ELSE LET f == FoldWeeks(NewCalc(check_id, check_name), rsp.weeks)
         IN  IF f.panic THEN Panic ELSE Finalize(f.calc)

----------------------------------------------------------------------------
(* Inputs *)

\* what the summary endpoint can answer: a transport error, or a status and
\* a body that is not JSON, JSON without summary.weeks, or JSON with it
Response(net, status, json, hasWeeks, weeks) ==
    [net |-> net, status |-> status, json |-> json, hasWeeks |-> hasWeeks,
     weeks |-> weeks]

Week(u, d, n) == [uptime |-> u, downtime |-> d, unmonitored |-> n]

\* well-formed weekly records, and one whose downtime is not a u64
GoodWeeks == {Week(u, d, n) : u \in {0, 500000}, d \in {0, 30, 1200}, n \in {0, 300}}
BadWeek == Week(0, -1, 0)
Weeks == GoodWeeks \cup {BadWeek}

\* the records of the worked example of the specification
ExampleWeeks == <<Week(500000, 1200, 0), Week(500000, 0, 300)>>

SeqsUpTo(S, n) == UNION {[1..k -> S] : k \in 0..n}

NetErr == Response(FALSE, 0, FALSE, FALSE, <<>>)
NotJson(status) == Response(TRUE, status, FALSE, FALSE, <<>>)
NoWeeks(status) == Response(TRUE, status, TRUE, FALSE, <<>>)
Summary(weeks) == Response(TRUE, 200, TRUE, TRUE, weeks)

Statuses == {200, 403, 429}

ReduceInputs ==
    {NetErr} \cup {NotJson(s) : s \in Statuses} \cup {NoWeeks(s) : s \in Statuses}
    \cup {Summary(w) : w \in SeqsUpTo(Weeks, MaxWeeks)}

\* the check the reducer specification runs on: c["id"].to_string() of the
\* number 1 and c["name"].to_string() of the string "A" (lines 161-162)
ReduceId == JsonNumber(1)
ReduceName == JsonString(<<65>>)

----------------------------------------------------------------------------
(* SpecReduce: calculate_uptime, step by step, on one response *)

\* main before its first statement
MainStart ==
    /\ list_requests = 0 /\ requests = <<>>
    /\ list_resp = [net |-> FALSE, json |-> FALSE, hasChecks |-> FALSE]
    /\ checks = <<>> /\ resp = <<>> /\ next = 1
    /\ phase = <<>> /\ result = <<>> /\ collected = <<>>
    /\ ranked = <<>> /\ output = <<>> /\ pc = "start"

Env(args, dates, key, url) == [args |-> args, dates |-> dates, key |-> key, url |-> url]

MainIdle ==
    /\ env = Env(TRUE, TRUE, TRUE, TRUE)
    /\ MainStart

InitReduce ==
    /\ r_resp \in ReduceInputs
    /\ r_pc = "start"
    /\ uptime_calc = NewCalc(ReduceId, ReduceName)
    /\ percentage = F64(0)
    /\ MainIdle

\* line 95: get_perf_summary(..).await? and serde_json::from_str(..)?
RFetch ==
    /\ r_pc = "start"
    /\ r_pc' = IF FetchFails(r_resp) THEN "err" ELSE "parsed"
    /\ UNCHANGED <<r_resp, uptime_calc, percentage>>
    /\ UNCHANGED mvars

\* lines 97-107: as_array().unwrap() and the loop
RFold ==
    /\ r_pc = "parsed"
    /\ IF ~r_resp.hasWeeks
       THEN r_pc' = "panic" /\ UNCHANGED uptime_calc
       ELSE LET f == FoldWeeks(uptime_calc, r_resp.weeks)
            IN  /\ r_pc' = IF f.panic THEN "panic" ELSE "folded"
                /\ uptime_calc' = f.calc
    /\ UNCHANGED <<r_resp, percentage>>
    /\ UNCHANGED mvars

\* lines 109-110
RMaxUptime ==
    /\ r_pc = "folded"
    /\ uptime_calc' = [uptime_calc EXCEPT !.max_uptime = MaxUptime(uptime_calc)]
    /\ r_pc' = "max"
    /\ UNCHANGED <<r_resp, percentage>>
    /\ UNCHANGED mvars

\* line 112
RPercentage ==
    /\ r_pc = "max"
    /\ percentage' = Percentage(uptime_calc, uptime_calc.max_uptime)
    /\ r_pc' = "pct"
    /\ UNCHANGED <<r_resp, uptime_calc>>
    /\ UNCHANGED mvars

\* lines 113-115: Number::from_f64(percentage).unwrap(), then Ok(uptime_calc)
RReturn ==
    /\ r_pc = "pct"
    /\ IF percentage.nan
       THEN r_pc' = "panic" /\ UNCHANGED uptime_calc
       ELSE /\ r_pc' = "ok"
            /\ uptime_calc' = [uptime_calc EXCEPT !.percentage = percentage]
    /\ UNCHANGED <<r_resp, percentage>>
    /\ UNCHANGED mvars

NextReduce == RFetch \/ RFold \/ RMaxUptime \/ RPercentage \/ RReturn

SpecReduce == InitReduce /\ [][NextReduce]_vars

\* the step-by-step run and the function agree on the outcome
ReduceAgrees ==
    LET o == calculate_uptime(ReduceId, ReduceName, r_resp)
    IN  /\ r_pc = "ok" => o = Ok(uptime_calc)
        /\ r_pc = "err" => o = Err
        /\ r_pc = "panic" => o = Panic

----------------------------------------------------------------------------
(* main: the check list and the responses of a run *)

ConcurrencyLimit == 10

Check(id, name) == [id |-> id, name |-> name]

Alpha == <<65, 108, 112, 104, 97>>
Alpha1 == <<65, 108, 112, 104, 97, 49>>
Beta == <<66, 101, 116, 97>>

\* two checks share a name, and one name is a proper prefix of another
CheckPool == {Check(1, Alpha), Check(2, Beta), Check(3, Alpha1), Check(4, Alpha)}

InjectiveSeqs(S, n) ==
    {q \in SeqsUpTo(S, n) : \A a, b \in 1..Len(q) : a # b => q[a] # q[b]}

OtherWeeks == <<Week(500000, 30, 0)>>

MainResponses ==
    {NetErr, NotJson(429), NoWeeks(403), Summary(<<BadWeek>>), Summary(<<>>),
     Summary(ExampleWeeks), Summary(OtherWeeks)}

\* a check list longer than the concurrency limit, while the service is
\* unreachable
LongList == [k \in 1..(ConcurrencyLimit + Extra) |-> Check(k, <<65>>)]

Pending == [tag |-> "pending"]

\* the check lists and summary responses a run can meet
Scenarios ==
    {[checks |-> c, resp |-> r] :
        c \in InjectiveSeqs(CheckPool, MaxChecks), r \in SeqsUpTo(MainResponses, MaxChecks)}
    \cup {[checks |-> LongList, resp |-> [k \in 1..Len(LongList) |-> r]] :
            r \in {NetErr, NoWeeks(403)}}

\* what GET /checks can answer: a transport error, a body that is not JSON,
\* JSON without a "checks" array, or the check list
ListResponse(net, json, hasChecks) == [net |-> net, json |-> json, hasChecks |-> hasChecks]

ListResponses ==
    {ListResponse(FALSE, FALSE, FALSE), ListResponse(TRUE, FALSE, FALSE),
     ListResponse(TRUE, TRUE, FALSE), ListResponse(TRUE, TRUE, TRUE)}

\* whether both dates were given and parse, and whether PINGDOM_API_KEY and
\* PINGDOM_API_URL are set once dotenv() has run
Envs == {Env(a, d, k, u) : a \in BOOLEAN, d \in BOOLEAN, k \in BOOLEAN, u \in BOOLEAN}

InitMain ==
    /\ env \in Envs
    /\ MainStart

ReduceIdle ==
    /\ r_resp = NetErr /\ r_pc = "start"
    /\ uptime_calc = NewCalc(ReduceId, ReduceName)
    /\ percentage = F64(0)

Init == ReduceIdle /\ InitMain

----------------------------------------------------------------------------
(* main: arguments, configuration and the check list, lines 136-158 *)

\* lines 138-151: without both dates main prints the usage and returns Ok;
\* a date that does not parse returns the error through `?`
ParseArgs ==
    /\ pc = "start"
    /\ pc' = IF ~env.args THEN "usage" ELSE IF ~env.dates THEN "failed" ELSE "env"
    /\ UNCHANGED <<env, list_requests, list_resp, requests, checks, resp, next, phase,
                   result, collected, ranked, output>>
    /\ UNCHANGED rvars

\* which of the two settings lines 153-154 find
ConfigPresentKeyOnly == env.key
ConfigPresent == env.key /\ env.url

\* lines 153-156: the two expect()s, then GET /checks is sent
LoadConfig ==
    /\ pc = "env"
    /\ IF ConfigPresent
       THEN pc' = "list" /\ list_requests' = list_requests + 1
       ELSE pc' = "panic_env" /\ UNCHANGED list_requests
    /\ UNCHANGED <<env, list_resp, requests, checks, resp, next, phase, result,
                   collected, ranked, output>>
    /\ UNCHANGED rvars

\* lines 156-158: the answer to GET /checks; the two `?` return the error,
\* as_array().unwrap() panics, and otherwise the stream is built
\* the stream of line 158 over the checks of the answer
StartStream(sc) ==
    /\ Len(sc.resp) = Len(sc.checks)
    /\ checks' = sc.checks
    /\ resp' = sc.resp
    /\ next' = 1
    /\ phase' = [k \in 1..Len(sc.checks) |-> "queued"]
    /\ result' = [k \in 1..Len(sc.checks) |-> Pending]
    /\ requests' = [k \in 1..Len(sc.checks) |-> 0]
    /\ pc' = "collect"

ListReturnLenient ==
    /\ pc = "list"
    /\ \E lr \in ListResponses :
          /\ list_resp' = lr
          /\ IF lr.net /\ lr.json /\ lr.hasChecks
             THEN \E sc \in Scenarios : StartStream(sc)
             ELSE StartStream([checks |-> <<>>, resp |-> <<>>])
    /\ UNCHANGED <<env, list_requests, collected, ranked, output>>
    /\ UNCHANGED rvars

ListReturn ==
    /\ pc = "list"
    /\ \E lr \in ListResponses :
          /\ list_resp' = lr
          /\ IF ~lr.net \/ ~lr.json
             THEN /\ pc' = "failed"
                  /\ UNCHANGED <<requests, checks, resp, next, phase, result>>
             ELSE IF ~lr.hasChecks
             THEN /\ pc' = "panic_list"
                  /\ UNCHANGED <<requests, checks, resp, next, phase, result>>
             ELSE \E sc \in Scenarios : StartStream(sc)
    /\ UNCHANGED <<env, list_requests, collected, ranked, output>>
    /\ UNCHANGED rvars

----------------------------------------------------------------------------
(* main: the buffered stream, lines 158-173 *)

InFlightSet == {k \in 1..Len(checks) : phase[k] \in {"fetching", "sleeping"}}
InFlight == Cardinality(InFlightSet)

\* BufferUnordered::poll_next pulls from the stream while the queue holds
\* fewer than n futures, before it polls the futures themselves
HasRoomOffByOne == InFlight <= ConcurrencyLimit
HasRoomOneShort == InFlight < ConcurrencyLimit - 1
HasRoom == InFlight < ConcurrencyLimit

CanAdmit == pc = "collect" /\ next <= Len(checks) /\ HasRoom

\* the closure of lines 159-170 runs for the next check, its future joins
\* the queue and its first poll sends the summary request (line 73)
Admit ==
    /\ CanAdmit
    /\ phase' = [phase EXCEPT ![next] = "fetching"]
    /\ requests' = [requests EXCEPT ![next] = @ + 1]
    /\ next' = next + 1
    /\ UNCHANGED <<env, list_requests, list_resp, checks, resp, result, collected,
                   ranked, output, pc>>
    /\ UNCHANGED rvars

FetchReturnNoDelayOnErr(k) ==
    /\ pc = "collect" /\ ~CanAdmit
    /\ phase[k] = "fetching"
    /\ LET r == calculate_uptime(JsonNumber(checks[k].id),
                                 JsonString(checks[k].name), resp[k])
       IN  IF r.tag = "panic"
           THEN pc' = "panicked" /\ UNCHANGED <<phase, result, collected>>
           ELSE /\ result' = [result EXCEPT ![k] = r]
                /\ pc' = pc
                /\ IF r.tag = "err"
                   THEN /\ phase' = [phase EXCEPT ![k] = "done"]
                        /\ collected' = Append(collected, r)
                   ELSE /\ phase' = [phase EXCEPT ![k] = "sleeping"]
                        /\ UNCHANGED collected
    /\ UNCHANGED <<env, list_requests, list_resp, requests, checks, resp, next,
                   ranked, output>>
    /\ UNCHANGED rvars

\* line 166: the summary request of check k returns and calculate_uptime runs
\* to its end; a panic unwinds through main
FetchReturn(k) ==
    /\ pc = "collect" /\ ~CanAdmit
    /\ phase[k] = "fetching"
    /\ LET r == calculate_uptime(JsonNumber(checks[k].id),
                                 JsonString(checks[k].name), resp[k])
       IN  IF r.tag = "panic"
           THEN pc' = "panicked" /\ UNCHANGED <<phase, result>>
           ELSE /\ result' = [result EXCEPT ![k] = r]
                /\ phase' = [phase EXCEPT ![k] = "sleeping"]
                /\ pc' = pc
    /\ UNCHANGED <<env, list_requests, list_resp, requests, checks, resp, next, collected, ranked, output>>
    /\ UNCHANGED rvars

\* lines 167-168: the sleep of check k ends, its future yields the result and
\* collect() pushes it
SleepDone(k) ==
    /\ pc = "collect" /\ ~CanAdmit
    /\ phase[k] = "sleeping"
    /\ phase' = [phase EXCEPT ![k] = "done"]
    /\ collected' = Append(collected, result[k])
    /\ UNCHANGED <<env, list_requests, list_resp, requests, checks, resp, next, result, ranked, output, pc>>
    /\ UNCHANGED rvars

----------------------------------------------------------------------------
(* main: ranking and printing, lines 175-182 *)

\* line 175: filter_map(Result::ok)
RECURSIVE OkStats(_)
OkStats(rs) ==
    IF rs = <<>> THEN <<>>
    ELSE IF Head(rs).tag = "ok" THEN <<Head(rs).stat>> \o OkStats(Tail(rs))
    ELSE OkStats(Tail(rs))

\* the key line 176 compares: a["name"].to_string()
SortKey(u) == JsonString(u.name)

RECURSIVE InsertBeforeEqual(_, _)
InsertBeforeEqual(u, s) ==
    IF s = <<>> THEN <<u>>
    ELSE IF StrLeq(SortKey(u), SortKey(Head(s))) THEN <<u>> \o s
    ELSE <<Head(s)>> \o InsertBeforeEqual(u, Tail(s))

InsertAtFront(u, s) == <<u>> \o s

RECURSIVE InsertDropEqual(_, _)
InsertDropEqual(u, s) ==
    IF s = <<>> THEN <<u>>
    ELSE IF StrLess(SortKey(u), SortKey(Head(s))) THEN <<u>> \o s
    ELSE IF SortKey(u) = SortKey(Head(s)) THEN s
    ELSE <<Head(s)>> \o InsertDropEqual(u, Tail(s))

\* slice::sort_by is stable: an element goes behind every element that does
\* not compare greater
RECURSIVE InsertByName(_, _)
InsertByName(u, s) ==
    IF s = <<>> THEN <<u>>
    ELSE IF StrLess(SortKey(u), SortKey(Head(s))) THEN <<u>> \o s
    ELSE <<Head(s)>> \o InsertByName(u, Tail(s))

Unsorted(s) == s

RECURSIVE SortByName(_)
SortByName(s) ==
    IF s = <<>> THEN <<>>
    ELSE InsertByName(s[Len(s)], SortByName(SubSeq(s, 1, Len(s) - 1)))

\* Display of an f64 that is e4 / 10000: the integer part, a point, and the
\* decimals without trailing zeros (at least one)
RECURSIVE TrimZeros(_)
TrimZeros(d) ==
    IF Len(d) > 1 /\ d[Len(d)] = Zero THEN TrimZeros(SubSeq(d, 1, Len(d) - 1))
    ELSE d

FormatF64(x) ==
    LET frac == x.e4 % 10000
        four == <<Zero + (frac \div 1000), Zero + ((frac \div 100) % 10),
                  Zero + ((frac \div 10) % 10), Zero + (frac % 10)>>
    IN  Digits(x.e4 \div 10000) \o <<46>> \o TrimZeros(four)

\* line 179: "{}, {}%, {} mins"
ReportLine(u) ==
    JsonString(u.name) \o <<44, 32>> \o FormatF64(u.percentage) \o <<37, 44, 32>>
        \o Digits(u.downtime_mins) \o <<32, 109, 105, 110, 115>>

\* lines 175-176, once the stream is exhausted and collect() has returned
Rank ==
    /\ pc = "collect"
    /\ next > Len(checks)
    /\ \A k \in 1..Len(checks) : phase[k] = "done"
    /\ ranked' = SortByName(OkStats(collected))
    /\ pc' = "print"
    /\ UNCHANGED <<env, list_requests, list_resp, requests, checks, resp, next, phase, result, collected, output>>
    /\ UNCHANGED rvars

\* lines 178-182
PrintReport ==
    /\ pc = "print"
    /\ output' = [k \in 1..Len(ranked) |-> ReportLine(ranked[k])]
    /\ pc' = "done"
    /\ UNCHANGED <<env, list_requests, list_resp, requests, checks, resp, next, phase, result, collected, ranked>>
    /\ UNCHANGED rvars

Next ==
    \/ ParseArgs
    \/ LoadConfig
    \/ ListReturn
    \/ Admit
    \/ \E k \in 1..Len(checks) : FetchReturn(k)
    \/ \E k \in 1..Len(checks) : SleepDone(k)
    \/ Rank
    \/ PrintReport

Spec == Init /\ [][Next]_vars

----------------------------------------------------------------------------
(* Claims about calculate_uptime, checked under SpecReduce *)

\* sums over the input records, written without the fold
TotalUptime(w) ==
    LET S[k \in 0..Len(w)] == IF k = 0 THEN 0 ELSE S[k - 1] + w[k].uptime
    IN  S[Len(w)]
TotalDowntime(w) ==
    LET S[k \in 0..Len(w)] == IF k = 0 THEN 0 ELSE S[k - 1] + w[k].downtime
    IN  S[Len(w)]
TotalUnmonitored(w) ==
    LET S[k \in 0..Len(w)] == IF k = 0 THEN 0 ELSE S[k - 1] + w[k].unmonitored
    IN  S[Len(w)]
TotalWholeMinutes(w) ==
    LET S[k \in 0..Len(w)] ==
            IF k = 0 THEN 0 ELSE S[k - 1] + (w[k].downtime \div 60)
    IN  S[Len(w)]

\* the response carries a summary.weeks array of well-formed records
WellFormed(rsp) ==
    /\ rsp.net /\ rsp.json /\ rsp.hasWeeks
    /\ \A k \in 1..Len(rsp.weeks) : RecordOk(rsp.weeks[k])

Folded == r_pc \in {"folded", "max", "pct", "ok"}
MaxSet == r_pc \in {"max", "pct", "ok"}
PctSet == r_pc \in {"pct", "ok"}

\* k is num / den * 1000000 rounded to the nearest integer, halves away from
\* zero: -den < 2 * (k * den - num * 1000000) <= den, computed in two limbs of
\* k so that no product leaves the 32-bit range
IsRoundedE4(k, num, den) ==
    LET k1 == k \div 1000
        k0 == k % 1000
        a == k1 * den - num * 1000
    IN  /\ a >= -den /\ a <= den \div 1000
        /\ LET s == 1000 * a + k0 * den
           IN  /\ s >= -den /\ s <= den
               /\ -den < 2 * s /\ 2 * s <= den

\* C4: a response whose records total max_uptime = 0 (the empty weeks array
\* among them) reduces without a crash to a stat with every numeric field
\* zero and the percentage 0.0.
C4_ZeroTotalDefined ==
    (WellFormed(r_resp) /\ TotalUptime(r_resp.weeks) + TotalDowntime(r_resp.weeks)
                             + TotalUnmonitored(r_resp.weeks) = 0)
    => /\ r_pc # "panic"
       /\ PctSet => percentage = F64(0)
       /\ r_pc = "ok" => uptime_calc = NewCalc(ReduceId, ReduceName)

\* C5: once the fold is over, uptime, downtime and unmonitored are the sums of
\* the records' fields; max_uptime is 0 until line 110 sets it, and from then
\* on it is the sum of the three totals.
C5_TotalsAreSums ==
    /\ (Folded /\ Len(r_resp.weeks) > 0) =>
          /\ uptime_calc.uptime = TotalUptime(r_resp.weeks)
          /\ uptime_calc.downtime = TotalDowntime(r_resp.weeks)
          /\ uptime_calc.unmonitored = TotalUnmonitored(r_resp.weeks)
    /\ (MaxSet /\ Len(r_resp.weeks) > 0) =>
          uptime_calc.max_uptime = TotalUptime(r_resp.weeks)
              + TotalDowntime(r_resp.weeks) + TotalUnmonitored(r_resp.weeks)
    /\ ~MaxSet => uptime_calc.max_uptime = 0

C5_Witness ==
    /\ r_pc = "ok" /\ Len(r_resp.weeks) = 2
    /\ uptime_calc.uptime > 0 /\ uptime_calc.downtime > 0
    /\ uptime_calc.unmonitored > 0
    /\ uptime_calc.max_uptime = 1001500

\* C6 as stated: downtime_mins of the finalized stat is its total downtime
\* divided by 60, truncated.
C6_MinsOfTotal ==
    r_pc = "ok" => uptime_calc.downtime_mins = uptime_calc.downtime \div 60

\* C6 amended: downtime_mins never exceeds downtime / 60 (truncated) and falls
\* short of it by less than the number of records, so the two are equal for a
\* single record.
C6_MinsWithinTotal ==
    Folded =>
        LET short == (uptime_calc.downtime \div 60) - uptime_calc.downtime_mins
        IN  /\ short >= 0
            /\ short = 0 \/ short < Len(r_resp.weeks)

C6_Witness ==
    /\ r_pc = "ok" /\ Len(r_resp.weeks) = 2
    /\ (uptime_calc.downtime \div 60) - uptime_calc.downtime_mins = 1

\* C7: downtime_mins is the sum over the records of floor(downtime / 60), each
\* record truncated on its own; downtimes 1200 and 0 give 20.
C7_MinsPerRecord ==
    /\ Folded => uptime_calc.downtime_mins = TotalWholeMinutes(r_resp.weeks)
    /\ (r_pc = "ok" /\ r_resp.weeks = ExampleWeeks) => uptime_calc.downtime_mins = 20

C7_Witness ==
    /\ r_pc = "ok"
    /\ Len(r_resp.weeks) = 2
    /\ r_resp.weeks[1].downtime = 30 /\ r_resp.weeks[2].downtime = 30
    /\ uptime_calc.downtime = 60 /\ uptime_calc.downtime_mins = 0

\* the percentage is the correctly rounded number of ten-thousandths of
\* (uptime + unmonitored) / max_uptime * 100
PercentageRounded ==
    (PctSet /\ uptime_calc.max_uptime > 0) =>
        /\ ~percentage.nan
        /\ IsRoundedE4(percentage.e4, uptime_calc.uptime + uptime_calc.unmonitored,
                       uptime_calc.max_uptime)
        /\ r_pc = "ok" => uptime_calc.percentage = percentage

ExampleTotals ==
    /\ uptime_calc.uptime = 1000000 /\ uptime_calc.downtime = 1200
    /\ uptime_calc.unmonitored = 300 /\ uptime_calc.max_uptime = 1001500

\* C8 as stated: the rounded percentage, and 99.8801 for the worked example.
C8_ExampleAsStated ==
    /\ PercentageRounded
    /\ (r_pc = "ok" /\ r_resp.weeks = ExampleWeeks) =>
          ExampleTotals /\ uptime_calc.percentage = F64(998801)

\* C8 amended: whenever max_uptime > 0 the percentage is
\* (uptime + unmonitored) / max_uptime * 100 rounded to 4 decimal places; the
\* worked example gives uptime 1000000, downtime 1200, unmonitored 300,
\* max_uptime 1001500 and percentage 99.8802.
C8_PercentageRounded ==
    /\ PercentageRounded
    /\ (r_pc = "ok" /\ r_resp.weeks = ExampleWeeks) =>
          ExampleTotals /\ uptime_calc.percentage = F64(998802)

C8_Witness ==
    /\ r_pc = "ok" /\ r_resp.weeks = ExampleWeeks
    /\ uptime_calc.percentage = F64(998802)

\* C9: for every weeks array of records with non-negative integer fields the
\* percentage the reducer computes is a number of ten-thousandths between 0
\* and 100.
C9_PercentageInRange ==
    (WellFormed(r_resp) /\ PctSet) =>
        /\ ~percentage.nan
        /\ percentage.e4 >= 0 /\ percentage.e4 <= 1000000

\* the same, for the totals the percentage is defined for
PercentageInRangeWhenDefined ==
    (PctSet /\ uptime_calc.max_uptime > 0) =>
        /\ ~percentage.nan
        /\ percentage.e4 >= 0 /\ percentage.e4 <= 1000000

----------------------------------------------------------------------------
(* Claims about main's pipeline, checked under Spec *)

\* C1: at every instant at most 10 units of work have been started and have
\* not yet completed (a unit lasts from the issue of its summary request to
\* the end of its pacing delay).
C1_AtMostTenInFlight ==
    Cardinality({k \in 1..Len(checks) : phase[k] \in {"fetching", "sleeping"}}) <= 10

C1_Witness ==
    /\ InFlight = 10
    /\ next <= Len(checks)
    /\ \E k \in 1..Len(checks) : phase[k] = "sleeping"

\* a failed summary fetch in the specification's sense: a transport error or
\* a body that does not decode to summary.weeks records of integers
Failed(rsp) ==
    \/ ~rsp.net \/ ~rsp.json \/ ~rsp.hasWeeks
    \/ \E k \in 1..Len(rsp.weeks) : ~RecordOk(rsp.weeks[k])

\* a well-formed summary whose records total max_uptime = 0
Degenerate(rsp) ==
    /\ WellFormed(rsp)
    /\ TotalUptime(rsp.weeks) + TotalDowntime(rsp.weeks) + TotalUnmonitored(rsp.weeks) = 0

\* every check either fails to fetch or has a summary with max_uptime > 0
NoDegenerateSummary == \A k \in 1..Len(checks) : ~Degenerate(resp[k])

\* C2: no per-check failure aborts the batch: whatever failure the summary
\* endpoint answers a check with (transport error, a body that is not JSON,
\* JSON without summary.weeks, a non-integer field, a rejected request), the
\* run does not end in a panic, and when it ends it has reported every check
\* that did not fail.
C2_FailureNeverAborts ==
    NoDegenerateSummary =>
        /\ pc # "panicked"
        /\ pc = "done" =>
              \A k \in 1..Len(checks) :
                  ~Failed(resp[k]) =>
                      \E j \in 1..Len(ranked) : ranked[j].id = JsonNumber(checks[k].id)

Entries(id) == Cardinality({j \in 1..Len(ranked) : ranked[j].id = id})

\* C3: when the run has ended, the report holds exactly one entry for every
\* check whose summary fetch did not fail and none for a check whose fetch
\* failed.
C3_ReportIsTheNonFailed ==
    (NoDegenerateSummary /\ pc \in {"done", "panicked"}) =>
        /\ Len(output) = Len(ranked)
        /\ \A k \in 1..Len(checks) :
              Entries(JsonNumber(checks[k].id)) = IF Failed(resp[k]) THEN 0 ELSE 1

\* the name of the check a stat was computed for
NameOf(u) == (CHOOSE c \in {checks[k] : k \in 1..Len(checks)} : JsonNumber(c.id) = u.id).name

\* C10: the report is in ascending order of check name under plain code point
\* comparison of the names themselves.
C10_SortedByPlainName ==
    pc = "done" =>
        \A j \in 1..(Len(ranked) - 1) : StrLeq(NameOf(ranked[j]), NameOf(ranked[j + 1]))

\* what the code does instead: the report is in ascending order of the JSON
\* text of the stored names
SortedByKey ==
    pc = "done" =>
        \A j \in 1..(Len(ranked) - 1) : StrLeq(SortKey(ranked[j]), SortKey(ranked[j + 1]))

\* a run that reaches its end reports exactly the checks whose
\* calculate_uptime returned Ok
ReportWhenDone ==
    pc = "done" =>
        /\ Len(output) = Len(ranked)
        /\ \A k \in 1..Len(checks) :
              Entries(JsonNumber(checks[k].id)) = IF result[k].tag = "ok" THEN 1 ELSE 0

----------------------------------------------------------------------------
(* Further claims about main, checked under Spec *)

Started == pc \in {"collect", "print", "done", "panicked"}

\* what calculate_uptime returns for each check, in the order of the list
ResultsInListOrder ==
    [k \in 1..Len(checks) |->
        calculate_uptime(JsonNumber(checks[k].id), JsonString(checks[k].name), resp[k])]

\* the report of the run in which the units complete in the order of the list
ReportInListOrder ==
    LET st == SortByName(OkStats(ResultsInListOrder))
    IN  [j \in 1..Len(st) |-> ReportLine(st[j])]

\* no two checks that yield a stat have the same name
OkNamesDistinct ==
    \A a, b \in 1..Len(checks) :
        (a # b /\ ResultsInListOrder[a].tag = "ok" /\ ResultsInListOrder[b].tag = "ok")
            => checks[a].name # checks[b].name

\* C11 as stated: for a fixed check list and fixed responses the printed lines
\* are those of the run that completes in list order, whatever the
\* interleaving.
C11_SameInEveryInterleaving ==
    pc = "done" => output = ReportInListOrder

\* C11 amended: for a fixed check list and fixed responses in which no two
\* checks that yield a stat share a name, the sequence of printed lines is
\* the same in every interleaving.
C11_SameWhenNamesDiffer ==
    (pc = "done" /\ OkNamesDistinct) => output = ReportInListOrder

C11_Witness ==
    /\ pc = "done" /\ OkNamesDistinct
    /\ Len(checks) = 2 /\ Len(output) = 2 /\ Len(collected) = 2
    /\ collected[1] = result[2]
    /\ output[1] # output[2]

\* C12: no summary is requested twice, and when the run has ended every check
\* of the list has been requested exactly once.
C12_EachRequestedOnce ==
    /\ \A k \in 1..Len(checks) : requests[k] <= 1
    /\ pc \in {"done", "panicked"} => \A k \in 1..Len(checks) : requests[k] = 1

\* what holds of the requests in every run: never twice, once for every check
\* that was started, and once for every check of a run that reaches its end
RequestedAtMostOnce ==
    /\ \A k \in 1..Len(checks) :
          /\ requests[k] <= 1
          /\ requests[k] = 1 <=> phase[k] # "queued"
    /\ pc = "done" => \A k \in 1..Len(checks) : requests[k] = 1

PosIn(q, x) == CHOOSE j \in 1..Len(q) : q[j] = x

\* C13: two stats with equal names stand in the ranked sequence in the order
\* they had in the collected one.
C13_RankStable ==
    pc \in {"print", "done"} =>
        LET st == OkStats(collected)
        IN  \A i, j \in 1..Len(ranked) :
                (i < j /\ ranked[i].name = ranked[j].name)
                    => PosIn(st, ranked[i]) < PosIn(st, ranked[j])

C13_Witness ==
    /\ pc = "done" /\ Len(ranked) = 2
    /\ ranked[1].name = ranked[2].name
    /\ ranked[1].id = JsonNumber(4) /\ ranked[2].id = JsonNumber(1)
    /\ ranked[1].percentage # ranked[2].percentage

\* C14: ranking a ranked sequence returns it: rank(rank(s)) = rank(s) for the
\* stats collected so far, in whatever order they completed.
C14_RankIdempotent ==
    /\ LET st == OkStats(collected)
       IN  SortByName(SortByName(st)) = SortByName(st)
    /\ pc \in {"print", "done"} => SortByName(ranked) = ranked

C14_Witness ==
    /\ pc = "print" /\ Len(ranked) = 2
    /\ ranked[1].name = ranked[2].name
    /\ ranked[1] # ranked[2]

C16_BatchCompletes ==
    Started =>
        /\ pc = "done" \/ ENABLED Next
        /\ pc = "done" =>
              /\ \A k \in 1..Len(checks) : phase[k] = "done"
              /\ Len(collected) = Len(checks)
              /\ Len(output) = Len(OkStats(collected))

\* C17: while fewer than 10 units are in flight and a check is still queued,
\* the next step starts the next queued check; and whichever unit completes,
\* its slot can be taken by the next queued check at once.
C17_WorkConserving ==
    [][/\ (pc = "collect" /\ next <= Len(checks)
           /\ Cardinality({k \in 1..Len(checks) :
                             phase[k] \in {"fetching", "sleeping"}}) < 10)
             => (next' = next + 1 /\ phase'[next] = "fetching")
       /\ \A k \in 1..Len(checks) :
             (phase[k] = "sleeping" /\ phase'[k] = "done" /\ next <= Len(checks))
                => (pc' = "collect" /\ InFlight' = 9)]_vars

\* the first check is still being fetched while the check behind the first
\* ten has been started
C17_Witness ==
    /\ Len(checks) > 10
    /\ phase[1] = "fetching"
    /\ phase[11] = "fetching"
    /\ \E k \in 2..10 : phase[k] = "done"

NoRequest ==
    /\ list_requests = 0
    /\ \A k \in 1..Len(checks) : requests[k] = 0
    /\ requests = <<>>

\* C18 as stated: when the API key or the service URL is absent, no request is
\* ever issued and the run can only end in a fatal error.
C18_AbsentConfigIsFatal ==
    (~env.key \/ ~env.url) =>
        /\ NoRequest
        /\ pc \in {"start", "env", "failed", "panic_env"}

\* C18 amended: when the API key or the service URL is absent, no request is
\* ever issued; if both dates were given the run can only end in a fatal
\* error (the date error or the panic of expect), and if a date is missing it
\* prints the usage and ends successfully.
C18_AbsentConfigNoRequest ==
    (~env.key \/ ~env.url) =>
        /\ NoRequest
        /\ env.args => pc \in {"start", "env", "failed", "panic_env"}
        /\ ~env.args => pc \in {"start", "usage"}
        /\ pc = "failed" => ~env.dates
        /\ pc = "env" => env.dates

C18_Witness ==
    /\ pc = "panic_env"
    /\ env.key /\ ~env.url
    /\ list_requests = 0

ListAnswered == list_requests = 1 /\ pc # "list"
ListOk == list_resp.net /\ list_resp.json /\ list_resp.hasChecks

\* C20: a summary is requested, and a report line printed, only after the
\* check list was fetched and parsed; if that fails the run ends in an error
\* with no summary requested and nothing printed.
C20_ListBeforeSummaries ==
    /\ (ListAnswered /\ ~ListOk) =>
          /\ pc \in {"failed", "panic_list"}
          /\ requests = <<>> /\ checks = <<>> /\ output = <<>>
    /\ ((\E k \in 1..Len(checks) : requests[k] > 0) \/ output # <<>>) =>
          (ListAnswered /\ ListOk)
    /\ list_requests <= 1

C20_Witness ==
    /\ ListAnswered /\ list_resp.net /\ ~list_resp.json
    /\ pc = "failed"

Count(q, x) == Cardinality({j \in 1..Len(q) : q[j] = x})

\* C19: the ranked sequence is a permutation of the collected successful
\* stats, and each of them is still the stat calculate_uptime returned.
C19_RankOnlyReorders ==
    pc \in {"print", "done"} =>
        LET st == OkStats(collected)
        IN  /\ Len(ranked) = Len(st)
            /\ \A j \in 1..Len(st) : Count(ranked, st[j]) = Count(st, st[j])
            /\ \A j \in 1..Len(ranked) :
                  \E k \in 1..Len(checks) :
                      /\ result[k] = Ok(ranked[j])
                      /\ ResultsInListOrder[k] = Ok(ranked[j])

C19_Witness ==
    /\ pc = "done" /\ Len(ranked) = 2
    /\ ranked[1] = OkStats(collected)[2]
    /\ ranked[2] = OkStats(collected)[1]
    /\ ranked[1].name # ranked[2].name

====
